---- MODULE Spec2Model ----
(***************************************************************************)
(* Model of Libraries/LogBox/LogBox.js (the __DEV__ branch): the           *)
(* install/uninstall state machine around console.error / console.warn,    *)
(* the two classifiers registerWarning / registerError, and the public     *)
(* control surface.  LogBoxData, parseLogBoxLog, RCTLog and Platform are   *)
(* collaborators that live outside this file; every call LogBox makes      *)
(* into them is recorded, in order, in the variable trace.                 *)
(***************************************************************************)
EXTENDS Integers, Sequences, FiniteSets, TLC

\* ------------------------------------------------------------------ bounds
\* how many foreign interceptors may wrap console.error / console.warn
MaxDecor == 1

\* --------------------------------------------------------------- JS values
Str(s) == [type |-> "string", val |-> s]
Num(s) == [type |-> "number", val |-> s]
Bool(b) == [type |-> "boolean", val |-> IF b THEN "true" ELSE "false"]
Null == [type |-> "null", val |-> "null"]
Undefined == [type |-> "undefined", val |-> "undefined"]
Obj(s) == [type |-> "object", val |-> s]

\* args[0] of a variadic call (undefined when the call has no argument)
First(args) == IF Len(args) = 0 THEN Undefined ELSE args[1]

\* String(v)
String(v) == v.val

\* s.startsWith(p)
StartsWith(s, p) == Len(s) >= Len(p) /\ SubSeq(s, 1, Len(p)) = p

\* s.indexOf(p) + 1 (0 when p does not occur in s)
IndexOf(s, p) ==
  LET hits == {i \in 1..(Len(s) - Len(p) + 1) : SubSeq(s, i, i + Len(p) - 1) = p}
  IN IF hits = {} THEN 0 ELSE CHOOSE i \in hits : \A j \in hits : i <= j

\* s.includes(p)
Includes(s, p) == IndexOf(s, p) # 0

\* s.replace(p, r): the first occurrence only
ReplaceFirst(s, p, r) ==
  LET i == IndexOf(s, p)
  IN IF i = 0 THEN s
     ELSE SubSeq(s, 1, i - 1) \o r \o SubSeq(s, i + Len(p), Len(s))

\* ------------------------------------------------------------ text markers
ADVICE_PREFIX == "(ADVICE)"
WARNING_PREFIX == "Warning: "
LOGBOX_ERROR_MESSAGE == "An error was thrown when attempting to render log messages via LogBox."
DEPRECATION_NOTICE == "console.disableYellowBox has been deprecated and will be removed in a future release. Please use LogBox.ignoreAllLogs(value) instead."
COMPONENT_STACK == "\n    in App"

\* ------------------------------------------------- collaborators (external)
\* LogBoxData.isLogBoxErrorMessage(message)
isLogBoxErrorMessage(v) ==
  v.type = "string" /\ Includes(v.val, LOGBOX_ERROR_MESSAGE)

\* an ignore rule is an exact string, Str(s), or a pattern
RegExp(s) == [type |-> "regexp", val |-> s]

\* LogBoxData.isMessageIgnored(content), against the registered rules
isMessageIgnored(content, patterns) ==
  \E p \in patterns :
    IF p.type = "string" THEN content = p.val ELSE Includes(content, p.val)

\* a component stack argument
isComponentStack(v) == v.type = "string" /\ StartsWith(v.val, "\n    in ")

\* printf-style interpolation of a format with its substitutions; the
\* substitutions the format does not consume are appended
RECURSIVE Interpolate(_, _)
Interpolate(format, subs) ==
  IF Len(subs) = 0 THEN format
  ELSE IF Includes(format, "%s")
       THEN Interpolate(ReplaceFirst(format, "%s", String(Head(subs))), Tail(subs))
       ELSE Interpolate(format \o " " \o String(Head(subs)), Tail(subs))

\* the arguments of a call that are (not) component stacks
RECURSIVE WithoutStack(_)
WithoutStack(args) ==
  IF Len(args) = 0 THEN <<>>
  ELSE IF isComponentStack(Head(args)) THEN WithoutStack(Tail(args))
       ELSE <<Head(args)>> \o WithoutStack(Tail(args))

RECURSIVE StackOf(_)
StackOf(args) ==
  IF Len(args) = 0 THEN ""
  ELSE IF isComponentStack(Head(args)) THEN String(Head(args))
       ELSE StackOf(Tail(args))

\* parseInterpolation(args).message.content
parseInterpolation(args) ==
  IF Len(args) = 0 THEN String(Undefined)
  ELSE Interpolate(String(Head(args)), Tail(args))

\* parseLogBoxLog(args): {category, message, componentStack}
parseLogBoxLog(args) ==
  LET plain == WithoutStack(args)
  IN [category |-> String(First(plain)),
      content |-> parseInterpolation(plain),
      componentStack |-> StackOf(args)]

\* ---------------------------------------------------------- recorded calls
NoRecord == [level |-> "", category |-> "", content |-> "", componentStack |-> ""]

\* one call made by LogBox into a collaborator or a console channel
Ev(fn, args) == [fn |-> fn, args |-> args, rec |-> NoRecord]
EvLog(rec) == [fn |-> "LogBoxData.addLog", args |-> <<>>, rec |-> rec]

\* what the external functions do in one diagnostic call: which of them
\* throws (if any) and what the warning filter table answers
NoOracle ==
  [throws |-> "none",
   suppressCompletely |-> FALSE, suppressDialog_LEGACY |-> FALSE,
   forceDialogImmediately |-> FALSE, rewrite |-> FALSE]

\* LogBoxData.checkWarningFilter(format): the answer of the filter table
checkWarningFilter(format, orc) ==
  [suppressCompletely |-> orc.suppressCompletely,
   suppressDialog_LEGACY |-> orc.suppressDialog_LEGACY,
   forceDialogImmediately |-> orc.forceDialogImmediately,
   finalFormat |-> IF orc.rewrite THEN "Rewritten " \o format ELSE format]

\* ------------------------------------------------------------------- state
\* A function value is the chain of layers it is made of, innermost first:
\* "nativeError" / "nativeWarn" are the platform's channels, "other" is a
\* foreign interceptor that forwards to the function it wrapped,
\* "errorWrapper" / "warnWrapper" are the closures of install(), and
\* "registerError" / "registerWarning" the classifiers.  <<>> is undefined.
VARIABLES
  isLogBoxInstalled,     \* let isLogBoxInstalled
  originalConsoleError,  \* let originalConsoleError
  originalConsoleWarn,   \* let originalConsoleWarn
  consoleErrorImpl,      \* let consoleErrorImpl
  consoleWarnImpl,       \* let consoleWarnImpl
  consoleError,          \* the global slot console.error
  consoleWarn,           \* the global slot console.warn
  consoleProps,          \* console.disableYellowBox, console.disableLogBox
  warningHandler,        \* the handler registered with RCTLog
  disabled,              \* LogBoxData's disabled flag
  ignorePatterns,        \* LogBoxData's ignore rules
  isTesting,             \* Platform.isTesting
  legacyFlag,            \* what the application last wrote to console.disableYellowBox
  call,                  \* the operation that ran last, with its inputs
  trace                  \* the calls it made, in order

installation ==
  <<isLogBoxInstalled, originalConsoleError, originalConsoleWarn,
    consoleErrorImpl, consoleWarnImpl>>
globals == <<consoleError, consoleWarn>>
store == <<disabled, ignorePatterns>>
vars ==
  <<isLogBoxInstalled, originalConsoleError, originalConsoleWarn,
    consoleErrorImpl, consoleWarnImpl, consoleError, consoleWarn,
    consoleProps, warningHandler, disabled, ignorePatterns, isTesting,
    legacyFlag, call, trace>>

\* what a classifier reads of the module's state
Ctx(oE, oW, iE, iW, pats) ==
  [originalConsoleError |-> oE, originalConsoleWarn |-> oW,
   consoleErrorImpl |-> iE, consoleWarnImpl |-> iW, patterns |-> pats]

Here ==
  Ctx(originalConsoleError, originalConsoleWarn, consoleErrorImpl,
      consoleWarnImpl, ignorePatterns)

\* -------------------------------------------------------------- classifier
\* a captured original runs: the interceptors it wraps see the call, then
\* the platform's channel; a captured LogBox layer would be a re-entry
RECURSIVE InvokeOriginal(_, _)
InvokeOriginal(fn, args) ==
  IF Len(fn) = 0 THEN <<Ev("TypeError", args)>>
  ELSE LET top == fn[Len(fn)]
           below == SubSeq(fn, 1, Len(fn) - 1)
       IN CASE top = "other" -> <<Ev("other", args)>> \o InvokeOriginal(below, args)
            [] top \in {"nativeError", "nativeWarn"} -> <<Ev(top, args)>>
            [] OTHER -> <<Ev("reentry", args)>>

\* originalConsoleError(...args)
CallOriginalError(args, ctx) ==
  <<Ev("originalConsoleError", args)>> \o InvokeOriginal(ctx.originalConsoleError, args)

\* originalConsoleWarn(...args)
CallOriginalWarn(args, ctx) ==
  <<Ev("originalConsoleWarn", args)>> \o InvokeOriginal(ctx.originalConsoleWarn, args)

\* variant: the exception leaves the classifier instead of being reported
CaughtRethrown == <<Ev("throw", <<>>)>>

\* catch (err) { LogBoxData.reportLogBoxError(err) }
Caught == <<Ev("LogBoxData.reportLogBoxError", <<>>)>>

isRCTLogAdviceWarning(args) ==
  First(args).type = "string" /\ StartsWith(First(args).val, ADVICE_PREFIX)

\* variant: any string counts as a warning of the 'warning' module
isWarningModuleWarningAnyString(args) == First(args).type = "string"

isWarningModuleWarning(args) ==
  First(args).type = "string" /\ StartsWith(First(args).val, WARNING_PREFIX)

\* variant: the warning is passed through before it is parsed
WarningBodyPassingFirst(args, ctx, orc) ==
  CallOriginalWarn(args, ctx) \o <<Ev("parseLogBoxLog", args)>> \o
  IF orc.throws = "parseLogBoxLog" THEN Caught
  ELSE LET parsed == parseLogBoxLog(args)
       IN <<Ev("LogBoxData.isMessageIgnored", <<Str(parsed.content)>>)>> \o
          IF isMessageIgnored(parsed.content, ctx.patterns) THEN <<>>
          ELSE <<EvLog([level |-> "warn", category |-> parsed.category,
                        content |-> parsed.content,
                        componentStack |-> parsed.componentStack])>>

\* the part of registerWarning inside try, after the advice test
WarningBody(args, ctx, orc) ==
  <<Ev("parseLogBoxLog", args)>> \o
  IF orc.throws = "parseLogBoxLog" THEN Caught
  ELSE LET parsed == parseLogBoxLog(args)
       IN <<Ev("LogBoxData.isMessageIgnored", <<Str(parsed.content)>>)>> \o
          IF isMessageIgnored(parsed.content, ctx.patterns) THEN <<>>
          ELSE CallOriginalWarn(args, ctx) \o
               <<EvLog([level |-> "warn", category |-> parsed.category,
                        content |-> parsed.content,
                        componentStack |-> parsed.componentStack])>>

registerWarning(args, ctx, orc) ==
  IF isLogBoxErrorMessage(Str(String(First(args))))
  THEN CallOriginalError(args, ctx)
  ELSE IF ~isRCTLogAdviceWarning(args) THEN WarningBody(args, ctx, orc)
       ELSE <<>>

\* variant: the upgrade to 'fatal' is missing
LevelWithoutFatal(filterResult) ==
  IF filterResult.suppressDialog_LEGACY = TRUE THEN "warn" ELSE "error"

\* let level = 'error'; if ... else if ...
Level(filterResult) ==
  IF filterResult.suppressDialog_LEGACY = TRUE THEN "warn"
  ELSE IF filterResult.forceDialogImmediately = TRUE THEN "fatal"
       ELSE "error"

\* variant: the arguments, not the interpolated text, are passed through
ErrorBodyPassingArgs(args, filterResult, ctx, orc) ==
  LET level == Level(filterResult)
      args2 == <<Str(WARNING_PREFIX \o filterResult.finalFormat)>> \o Tail(args)
  IN <<Ev("parseLogBoxLog", args2)>> \o
     IF orc.throws = "parseLogBoxLog" THEN Caught
     ELSE LET parsed == parseLogBoxLog(args2)
          IN <<Ev("LogBoxData.isMessageIgnored", <<Str(parsed.content)>>)>> \o
             IF isMessageIgnored(parsed.content, ctx.patterns) THEN <<>>
             ELSE <<Ev("parseInterpolation", args2)>> \o
                  IF orc.throws = "parseInterpolation" THEN Caught
                  ELSE CallOriginalError(args2, ctx) \o
                       <<EvLog([level |-> level, category |-> parsed.category,
                                content |-> parsed.content,
                                componentStack |-> parsed.componentStack])>>

\* the part of registerError after the filter's answer
ErrorBody(args, filterResult, ctx, orc) ==
  LET level == Level(filterResult)
      args2 == <<Str(WARNING_PREFIX \o filterResult.finalFormat)>> \o Tail(args)
  IN <<Ev("parseLogBoxLog", args2)>> \o
     IF orc.throws = "parseLogBoxLog" THEN Caught
     ELSE LET parsed == parseLogBoxLog(args2)
          IN <<Ev("LogBoxData.isMessageIgnored", <<Str(parsed.content)>>)>> \o
             IF isMessageIgnored(parsed.content, ctx.patterns) THEN <<>>
             ELSE <<Ev("parseInterpolation", args2)>> \o
                  IF orc.throws = "parseInterpolation" THEN Caught
                  ELSE CallOriginalError(<<Str(parseInterpolation(args2))>>, ctx) \o
                       <<EvLog([level |-> level, category |-> parsed.category,
                                content |-> parsed.content,
                                componentStack |-> parsed.componentStack])>>

\* variant: the suppressCompletely answer of the filter is not looked at
registerErrorNotSuppressing(args, ctx, orc) ==
  IF isLogBoxErrorMessage(First(args)) THEN CallOriginalError(args, ctx)
  ELSE IF ~isWarningModuleWarning(args) THEN CallOriginalError(args, ctx)
  ELSE LET format == ReplaceFirst(First(args).val, WARNING_PREFIX, "")
       IN <<Ev("LogBoxData.checkWarningFilter", <<Str(format)>>)>> \o
          IF orc.throws = "checkWarningFilter" THEN Caught
          ELSE ErrorBody(args, checkWarningFilter(format, orc), ctx, orc)

registerError(args, ctx, orc) ==
  IF isLogBoxErrorMessage(First(args)) THEN CallOriginalError(args, ctx)
  ELSE IF ~isWarningModuleWarning(args) THEN CallOriginalError(args, ctx)
  ELSE LET format == ReplaceFirst(First(args).val, WARNING_PREFIX, "")
       IN <<Ev("LogBoxData.checkWarningFilter", <<Str(format)>>)>> \o
          IF orc.throws = "checkWarningFilter" THEN Caught
          ELSE LET filterResult == checkWarningFilter(format, orc)
               IN IF filterResult.suppressCompletely THEN <<>>
                  ELSE ErrorBody(args, filterResult, ctx, orc)

\* a call of a function value: console.error(...args), console.warn(...args)
RECURSIVE Invoke(_, _, _, _)
Invoke(fn, args, ctx, orc) ==
  IF Len(fn) = 0 THEN <<Ev("TypeError", args)>>
  ELSE LET top == fn[Len(fn)]
           below == SubSeq(fn, 1, Len(fn) - 1)
       IN CASE top = "other" -> <<Ev("other", args)>> \o Invoke(below, args, ctx, orc)
            [] top = "errorWrapper" -> Invoke(ctx.consoleErrorImpl, args, ctx, orc)
            [] top = "warnWrapper" -> Invoke(ctx.consoleWarnImpl, args, ctx, orc)
            [] top = "registerError" -> registerError(args, ctx, orc)
            [] top = "registerWarning" -> registerWarning(args, ctx, orc)
            [] OTHER -> <<Ev(top, args)>>

\* ------------------------------------------------------------------ inputs
\* the argument lists of the diagnostic calls
ArgLists ==
  {<<>>,
   <<Str(ADVICE_PREFIX \o " use flex")>>,
   <<Str(WARNING_PREFIX \o "X overflow"), Str(COMPONENT_STACK)>>,
   <<Str(WARNING_PREFIX \o "%s is deprecated"), Str("Foo")>>,
   <<Str("plain failure")>>,
   <<Str(LOGBOX_ERROR_MESSAGE)>>,
   <<Num("42"), Str("Foo")>>}

\* what the parser may do on the warning channel
WarnOracles == {NoOracle, [NoOracle EXCEPT !.throws = "parseLogBoxLog"]}

\* what the filter table and the parsers may do on the error channel
ErrorOracles ==
  {[NoOracle EXCEPT !.throws = "checkWarningFilter"],
   [NoOracle EXCEPT !.throws = "parseLogBoxLog"],
   [NoOracle EXCEPT !.throws = "parseInterpolation"],
   [NoOracle EXCEPT !.suppressCompletely = TRUE],
   [NoOracle EXCEPT !.rewrite = TRUE]} \cup
  {[NoOracle EXCEPT !.suppressDialog_LEGACY = sd, !.forceDialogImmediately = fd] :
     sd \in BOOLEAN, fd \in BOOLEAN}

\* whether registerWarning gets as far as the parser with these arguments
ReachesParser(args) ==
  /\ ~isLogBoxErrorMessage(Str(String(First(args))))
  /\ ~isRCTLogAdviceWarning(args)

IgnorePatternLists == {<<Str("plain failure"), RegExp("overflow")>>}

Range(f) == {f[i] : i \in DOMAIN f}

Op(name, args, orc) == [op |-> name, args |-> args, orc |-> orc]

\* -------------------------------------------------------------------- Init
Init ==
  /\ isLogBoxInstalled = FALSE
  /\ originalConsoleError = <<>>
  /\ originalConsoleWarn = <<>>
  /\ consoleErrorImpl = <<>>
  /\ consoleWarnImpl = <<>>
  /\ consoleError = <<"nativeError">>
  /\ consoleWarn = <<"nativeWarn">>
  /\ consoleProps = [disableYellowBox |-> "absent", disableLogBox |-> "absent"]
  /\ warningHandler = "none"
  /\ disabled = FALSE
  /\ ignorePatterns = {}
  /\ isTesting \in BOOLEAN
  /\ legacyFlag = "unset"
  /\ call = Op("load", <<>>, NoOracle)
  /\ trace = <<>>

\* ----------------------------------------------------------------- install
\* variant: install() without its early return
AlreadyInstalledIgnored == FALSE

\* if (isLogBoxInstalled) return;
AlreadyInstalled == isLogBoxInstalled

\* variant: the entry points are captured at every install
IsFirstInstallEveryTime == ~isLogBoxInstalled

\* const isFirstInstall = originalConsoleError == null
IsFirstInstall == originalConsoleError = <<>>

\* (console: any).disableYellowBox === true
LegacyFlagIsTrue ==
  CASE consoleProps.disableYellowBox = "accessor" -> disabled
    [] consoleProps.disableYellowBox = "true" -> TRUE
    [] OTHER -> FALSE

SetDisabledEv(v) == <<Ev("LogBoxData.setDisabled", <<Bool(v)>>)>>

Install ==
  \E orc \in IF ~AlreadyInstalled /\ LegacyFlagIsTrue THEN WarnOracles ELSE {NoOracle} :
    LET first == IsFirstInstall
        oE == IF first THEN consoleError ELSE originalConsoleError
        oW == IF first THEN consoleWarn ELSE originalConsoleWarn
        gE == IF first THEN <<"errorWrapper">> ELSE consoleError
        gW == IF first THEN <<"warnWrapper">> ELSE consoleWarn
        ctx == Ctx(oE, oW, <<"registerError">>, <<"registerWarning">>, ignorePatterns)
        legacy == LegacyFlagIsTrue
    IN /\ call' = Op("install", <<>>, orc)
       /\ IF AlreadyInstalled
          THEN /\ trace' = <<>>
               /\ UNCHANGED <<installation, globals, consoleProps, warningHandler,
                              store, isTesting, legacyFlag>>
          ELSE /\ isLogBoxInstalled' = TRUE
               /\ originalConsoleError' = oE
               /\ originalConsoleWarn' = oW
               /\ consoleError' = gE
               /\ consoleWarn' = gW
               /\ consoleErrorImpl' = <<"registerError">>
               /\ consoleWarnImpl' = <<"registerWarning">>
               /\ trace' =
                    (IF legacy
                     THEN SetDisabledEv(TRUE) \o
                          Invoke(gW, <<Str(DEPRECATION_NOTICE)>>, ctx, orc)
                     ELSE <<>>) \o
                    (IF isTesting THEN SetDisabledEv(TRUE) ELSE <<>>) \o
                    <<Ev("RCTLog.setWarningHandler", <<>>)>>
               /\ consoleProps' = [consoleProps EXCEPT !.disableYellowBox = "accessor"]
               /\ disabled' = (legacy \/ isTesting \/ disabled)
               /\ warningHandler' = "registerWarning"
               /\ UNCHANGED <<ignorePatterns, isTesting, legacyFlag>>

\* --------------------------------------------------------------- uninstall
\* variant: uninstall() puts the captured entry points back on console
UninstallRestoringConsole ==
  /\ call' = Op("uninstall", <<>>, NoOracle)
  /\ trace' = <<>>
  /\ IF ~isLogBoxInstalled
     THEN UNCHANGED <<installation, consoleProps, globals>>
     ELSE /\ isLogBoxInstalled' = FALSE
          /\ consoleErrorImpl' = originalConsoleError
          /\ consoleWarnImpl' = originalConsoleWarn
          /\ consoleError' = originalConsoleError
          /\ consoleWarn' = originalConsoleWarn
          /\ consoleProps' = [consoleProps EXCEPT !.disableLogBox = "absent"]
          /\ UNCHANGED <<originalConsoleError, originalConsoleWarn>>
  /\ UNCHANGED <<warningHandler, store, isTesting, legacyFlag>>

Uninstall ==
  /\ call' = Op("uninstall", <<>>, NoOracle)
  /\ trace' = <<>>
  /\ IF ~isLogBoxInstalled
     THEN UNCHANGED <<installation, consoleProps>>
     ELSE /\ isLogBoxInstalled' = FALSE
          /\ consoleErrorImpl' = originalConsoleError
          /\ consoleWarnImpl' = originalConsoleWarn
          /\ consoleProps' = [consoleProps EXCEPT !.disableLogBox = "absent"]
          /\ UNCHANGED <<originalConsoleError, originalConsoleWarn>>
  /\ UNCHANGED <<globals, warningHandler, store, isTesting, legacyFlag>>

\* ------------------------------------------------- public control surface
IsInstalled ==
  /\ call' = Op("isInstalled", <<>>, NoOracle)
  /\ trace' = <<Ev("return", <<Bool(isLogBoxInstalled)>>)>>
  /\ UNCHANGED <<installation, globals, consoleProps, warningHandler, store, isTesting, legacyFlag>>

IgnoreLogs ==
  \E patterns \in IgnorePatternLists :
    /\ call' = Op("ignoreLogs", patterns, NoOracle)
    /\ trace' = <<Ev("LogBoxData.addIgnorePatterns", patterns)>>
    /\ ignorePatterns' = ignorePatterns \cup Range(patterns)
    /\ UNCHANGED <<installation, globals, consoleProps, warningHandler, disabled,
                   isTesting, legacyFlag>>

\* variant: the value is passed on without its default
IgnoreAllLogsValueNoDefault(value) == value = Bool(TRUE)

\* value == null ? true : value
IgnoreAllLogsValue(value) ==
  IF value.type \in {"null", "undefined"} THEN TRUE ELSE value = Bool(TRUE)

IgnoreAllLogs ==
  \E value \in {Undefined, Null, Bool(TRUE), Bool(FALSE)} :
    /\ call' = Op("ignoreAllLogs", <<value>>, NoOracle)
    /\ trace' = SetDisabledEv(IgnoreAllLogsValue(value))
    /\ disabled' = IgnoreAllLogsValue(value)
    /\ UNCHANGED <<installation, globals, consoleProps, warningHandler,
                   ignorePatterns, isTesting, legacyFlag>>

ClearAllLogs ==
  /\ call' = Op("clearAllLogs", <<>>, NoOracle)
  /\ trace' = <<Ev("LogBoxData.clear", <<>>)>>
  /\ UNCHANGED <<installation, globals, consoleProps, warningHandler, store, isTesting, legacyFlag>>

\* a log handed to addLog
LogData(level) ==
  [level |-> level, category |-> "c", content |-> "m", componentStack |-> ""]

\* variant: addLog() without the installed test
AddLogCallsAlways(log) == <<EvLog(log)>>

\* if (isLogBoxInstalled) { LogBoxData.addLog(log) }
AddLogCalls(log) == IF isLogBoxInstalled THEN <<EvLog(log)>> ELSE <<>>

AddLog ==
  \E level \in {"warn", "fatal"} :
    /\ call' = Op("addLog", <<Obj(level)>>, NoOracle)
    /\ trace' = AddLogCalls(LogData(level))
    /\ UNCHANGED <<installation, globals, consoleProps, warningHandler, store, isTesting, legacyFlag>>

AddException ==
  /\ call' = Op("addException", <<Obj("error")>>, NoOracle)
  /\ trace' = IF isLogBoxInstalled
              THEN <<Ev("LogBoxData.addException", <<Obj("error")>>)>>
              ELSE <<>>
  /\ UNCHANGED <<installation, globals, consoleProps, warningHandler, store, isTesting, legacyFlag>>

\* --------------------------------------------------------- diagnostic calls
\* console.error(...args), from anywhere in the application
ConsoleError ==
  \E args \in ArgLists :
    \E orc \in IF isLogBoxInstalled /\ isWarningModuleWarning(args)
               THEN ErrorOracles ELSE {NoOracle} :
      /\ call' = Op("console.error", args, orc)
      /\ trace' = Invoke(consoleError, args, Here, orc)
      /\ UNCHANGED <<installation, globals, consoleProps, warningHandler, store,
                     isTesting, legacyFlag>>

\* console.warn(...args), from anywhere in the application
ConsoleWarn ==
  \E args \in ArgLists :
    \E orc \in IF isLogBoxInstalled /\ ReachesParser(args)
               THEN WarnOracles ELSE {NoOracle} :
      /\ call' = Op("console.warn", args, orc)
      /\ trace' = Invoke(consoleWarn, args, Here, orc)
      /\ UNCHANGED <<installation, globals, consoleProps, warningHandler, store,
                     isTesting, legacyFlag>>

\* RCTLog hands a native warning to the handler install() registered:
\* (...args) => { registerWarning(...args) }
RCTLogWarning ==
  /\ warningHandler = "registerWarning"
  /\ \E args \in ArgLists :
       \E orc \in IF ReachesParser(args) THEN WarnOracles ELSE {NoOracle} :
         /\ call' = Op("RCTLog.warn", args, orc)
         /\ trace' = registerWarning(args, Here, orc)
         /\ UNCHANGED <<installation, globals, consoleProps, warningHandler, store,
                        isTesting, legacyFlag>>

\* ------------------------------------------------------------- environment
Others(fn) == Cardinality({i \in DOMAIN fn : fn[i] = "other"})

\* another interceptor replaces console.error or console.warn by a function
\* that forwards to the one it found there
Decorate ==
  /\ Others(consoleError) + Others(consoleWarn) + Others(originalConsoleError)
       + Others(originalConsoleWarn) < MaxDecor
  /\ \E channel \in {"error", "warn"} :
       /\ call' = Op("decorate", <<Str(channel)>>, NoOracle)
       /\ consoleError' = IF channel = "error" THEN consoleError \o <<"other">>
                          ELSE consoleError
       /\ consoleWarn' = IF channel = "warn" THEN consoleWarn \o <<"other">>
                         ELSE consoleWarn
  /\ trace' = <<>>
  /\ UNCHANGED <<installation, consoleProps, warningHandler, store, isTesting, legacyFlag>>

\* console.disableYellowBox = value: a plain property until install() defines
\* the accessor (set: value => { setDisabled(value); console.warn(...) })
SetDisableYellowBox ==
  \E value \in BOOLEAN :
    \E orc \in IF consoleProps.disableYellowBox = "accessor" /\ isLogBoxInstalled
               THEN WarnOracles ELSE {NoOracle} :
      /\ call' = Op("console.disableYellowBox=", <<Bool(value)>>, orc)
      /\ IF consoleProps.disableYellowBox = "accessor"
         THEN /\ disabled' = value
              /\ trace' = SetDisabledEv(value) \o
                          Invoke(consoleWarn, <<Str(DEPRECATION_NOTICE)>>, Here, orc)
              /\ UNCHANGED consoleProps
         ELSE /\ consoleProps' =
                   [consoleProps EXCEPT !.disableYellowBox = Bool(value).val]
              /\ trace' = <<>>
              /\ UNCHANGED disabled
      /\ legacyFlag' = Bool(value).val
      /\ UNCHANGED <<installation, globals, warningHandler, ignorePatterns, isTesting>>

\* console.disableLogBox = true, by the application
SetDisableLogBox ==
  /\ call' = Op("console.disableLogBox=", <<Bool(TRUE)>>, NoOracle)
  /\ consoleProps' = [consoleProps EXCEPT !.disableLogBox = "true"]
  /\ trace' = <<>>
  /\ UNCHANGED <<installation, globals, warningHandler, store, isTesting, legacyFlag>>

\* ----------------------------------------------------------- specification
Next ==
  \/ Install
  \/ Uninstall
  \/ IsInstalled
  \/ IgnoreLogs
  \/ IgnoreAllLogs
  \/ ClearAllLogs
  \/ AddLog
  \/ AddException
  \/ ConsoleError
  \/ ConsoleWarn
  \/ RCTLogWarning
  \/ Decorate
  \/ SetDisableYellowBox
  \/ SetDisableLogBox

Spec == Init /\ [][Next]_vars

\* ================================================================== claims
\* the positions of the calls to fn in the last operation's trace
Calls(fn) == {i \in DOMAIN trace : trace[i].fn = fn}

\* no LogRecord went to the store in the last operation
NoLogAdded == Calls("LogBoxData.addLog") = {}

\* the first argument of the last call is a string starting with prefix
FirstArgStartsWith(prefix) ==
  /\ Len(call.args) > 0
  /\ call.args[1].type = "string"
  /\ StartsWith(call.args[1].val, prefix)

\* the first argument of the last call carries the self-reporting marker
FirstArgSelfReporting ==
  /\ Len(call.args) > 0
  /\ call.args[1].type = "string"
  /\ Includes(call.args[1].val, LOGBOX_ERROR_MESSAGE)

\* C1: the original console.error / console.warn are captured exactly once,
\* by the first install(); no later step changes the saved originals, and a
\* later install() leaves the global console slots alone and only points
\* the active implementations at the classifiers.
C1_CapturedOnce ==
  [][/\ (originalConsoleError # <<>> =>
           /\ originalConsoleError' = originalConsoleError
           /\ originalConsoleWarn' = originalConsoleWarn)
     /\ (call'.op # "install" =>
           /\ originalConsoleError' = originalConsoleError
           /\ originalConsoleWarn' = originalConsoleWarn)
     /\ (call'.op = "install" /\ originalConsoleError = <<>> =>
           /\ originalConsoleError' = consoleError
           /\ originalConsoleWarn' = consoleWarn
           /\ originalConsoleError' # <<>>
           /\ originalConsoleWarn' # <<>>)
     /\ (call'.op = "install" /\ originalConsoleError # <<>> =>
           /\ consoleError' = consoleError
           /\ consoleWarn' = consoleWarn
           /\ (~isLogBoxInstalled =>
                 /\ consoleErrorImpl' = <<"registerError">>
                 /\ consoleWarnImpl' = <<"registerWarning">>))
    ]_vars

\* an install() that acted although console.error had been wrapped by another
\* interceptor on top of LogBox's wrapper: a re-install after an uninstall
C1_Witness ==
  /\ call.op = "install"
  /\ Calls("RCTLog.setWarningHandler") # {}
  /\ consoleError = <<"errorWrapper", "other">>
  /\ consoleErrorImpl = <<"registerError">>

\* the last call went through an interceptor that wrapped LogBox's wrapper
\* after install(), and LogBox has been uninstalled since
ForwardedAfterUninstall(op, slot, wrapper) ==
  /\ call.op = op
  /\ ~isLogBoxInstalled
  /\ slot = <<wrapper, "other">>

\* the trace of a call that the interceptor saw first and that then reached
\* the platform's channel, with the same arguments, and nothing else
ReachedChannel(native) ==
  /\ Len(trace) >= 2
  /\ trace[1] = Ev("other", call.args)
  /\ trace[Len(trace)] = Ev(native, call.args)
  /\ \A i \in DOMAIN trace : trace[i].fn \in {"other", native} /\ trace[i].args = call.args

\* C2: uninstall() never assigns console.error / console.warn, it only sets
\* the active implementations to the captured originals; so an interceptor
\* that wrapped console after install() is still the global entry point after
\* uninstall(), and a call it forwards to LogBox's wrapper reaches the
\* original channel with the same arguments and adds no LogRecord.
C2_UninstallKeepsConsole ==
  /\ [][call'.op = "uninstall" =>
          /\ consoleError' = consoleError
          /\ consoleWarn' = consoleWarn
          /\ (isLogBoxInstalled =>
                /\ consoleErrorImpl' = originalConsoleError
                /\ consoleWarnImpl' = originalConsoleWarn)]_vars
  /\ [](/\ (ForwardedAfterUninstall("console.error", consoleError, "errorWrapper")
              => ReachedChannel("nativeError") /\ NoLogAdded)
        /\ (ForwardedAfterUninstall("console.warn", consoleWarn, "warnWrapper")
              => ReachedChannel("nativeWarn") /\ NoLogAdded))

C2_Witness ==
  /\ ForwardedAfterUninstall("console.error", consoleError, "errorWrapper")
  /\ FirstArgStartsWith(WARNING_PREFIX)
  /\ ReachedChannel("nativeError")

\* C3: install() while installed, and uninstall() while uninstalled, change
\* nothing and call nothing: no disabled-flag write, no deprecation notice,
\* no hook registration.
C3_Idempotent ==
  [][(\/ call'.op = "install" /\ isLogBoxInstalled
      \/ call'.op = "uninstall" /\ ~isLogBoxInstalled)
     => /\ trace' = <<>>
        /\ UNCHANGED <<installation, globals, consoleProps, warningHandler, store>>
    ]_vars

\* a second install() in a state where a first one would have migrated the
\* legacy flag: it did nothing
C3_Witness ==
  /\ call.op = "install"
  /\ isLogBoxInstalled
  /\ trace = <<>>
  /\ disabled
  /\ consoleProps.disableYellowBox = "accessor"

\* C4: addLog(record) / addException(record) make exactly one call into the
\* store when installed, and none when uninstalled.
C4_AddOnlyWhenInstalled ==
  /\ (call.op = "addLog" =>
        IF isLogBoxInstalled
        THEN trace = <<EvLog(LogData(call.args[1].val))>>
        ELSE trace = <<>>)
  /\ (call.op = "addException" =>
        IF isLogBoxInstalled
        THEN trace = <<Ev("LogBoxData.addException", call.args)>>
        ELSE trace = <<>>)

\* addLog() after install() and uninstall(): nothing reached the store
C4_Witness ==
  /\ call.op = "addLog"
  /\ ~isLogBoxInstalled
  /\ originalConsoleError # <<>>
  /\ trace = <<>>

\* C5: a warning call, while installed, whose first argument is a string
\* starting with "(ADVICE)" adds no LogRecord and reaches the original warn
\* channel with its arguments unmodified.
C5_AdvicePassedThrough ==
  (call.op = "console.warn" /\ isLogBoxInstalled /\ FirstArgStartsWith(ADVICE_PREFIX))
  => /\ NoLogAdded
     /\ \E i \in DOMAIN trace : trace[i] = Ev("originalConsoleWarn", call.args)

\* C6: an error call whose filter lookup answers forceDialogImmediately and
\* suppressDialog_LEGACY both true (not suppressed completely) emits its
\* LogRecord with level 'fatal'.
C6_FatalWins ==
  (/\ call.op = "console.error"
   /\ isLogBoxInstalled
   /\ FirstArgStartsWith(WARNING_PREFIX)
   /\ call.orc.forceDialogImmediately
   /\ call.orc.suppressDialog_LEGACY
   /\ ~call.orc.suppressCompletely)
  => \A i \in Calls("LogBoxData.addLog") : trace[i].rec.level = "fatal"

\* C7: for an error call starting with "Warning: " the LogRecord's level is
\* 'warn' when only suppressDialog_LEGACY is set, 'fatal' when only
\* forceDialogImmediately is set, and 'error' when neither is; when the
\* filter leaves the format alone the call is parsed as it was made.
C7_Levels ==
  (call.op = "console.error" /\ isLogBoxInstalled /\ FirstArgStartsWith(WARNING_PREFIX))
  => /\ \A i \in Calls("LogBoxData.addLog") :
          /\ (call.orc.suppressDialog_LEGACY /\ ~call.orc.forceDialogImmediately
                => trace[i].rec.level = "warn")
          /\ (~call.orc.suppressDialog_LEGACY /\ call.orc.forceDialogImmediately
                => trace[i].rec.level = "fatal")
          /\ (~call.orc.suppressDialog_LEGACY /\ ~call.orc.forceDialogImmediately
                => trace[i].rec.level = "error")
     /\ \A i \in Calls("parseLogBoxLog") : ~call.orc.rewrite => trace[i].args = call.args

\* a LogRecord of level 'fatal' from a filter answer with only
\* forceDialogImmediately set
C7_Witness ==
  /\ call.op = "console.error"
  /\ isLogBoxInstalled
  /\ FirstArgStartsWith(WARNING_PREFIX)
  /\ call.orc.forceDialogImmediately
  /\ ~call.orc.suppressDialog_LEGACY
  /\ \E i \in Calls("LogBoxData.addLog") : trace[i].rec.level = "fatal"

\* C8: an error call, while installed, whose first argument is neither a
\* string starting with "Warning: " nor a self-reporting message adds no
\* LogRecord and invokes the original error channel exactly once, with the
\* arguments unmodified.
C8_PlainErrorPassedThrough ==
  (/\ call.op = "console.error"
   /\ isLogBoxInstalled
   /\ ~FirstArgStartsWith(WARNING_PREFIX)
   /\ ~FirstArgSelfReporting)
  => /\ NoLogAdded
     /\ Cardinality(Calls("originalConsoleError")) = 1
     /\ \A i \in Calls("originalConsoleError") : trace[i].args = call.args
     /\ Calls("originalConsoleWarn") = {}

C8_Witness ==
  /\ call.op = "console.error"
  /\ isLogBoxInstalled
  /\ call.args = <<Str("plain failure")>>
  /\ Cardinality(Calls("originalConsoleError")) = 1

\* the classifier asked the store about the parsed content and the content
\* is ignored
ContentIgnored ==
  \E i \in Calls("LogBoxData.isMessageIgnored") :
    isMessageIgnored(trace[i].args[1].val, ignorePatterns)

\* C9: a warning call or a wrapped-warning error call whose parsed message
\* content is ignored adds no LogRecord and invokes neither original console
\* channel, whether ignoreLogs() came before or after install().
C9_IgnoredDropped ==
  (call.op \in {"console.warn", "console.error", "RCTLog.warn"} /\ ContentIgnored)
  => /\ NoLogAdded
     /\ Calls("originalConsoleError") = {}
     /\ Calls("originalConsoleWarn") = {}
     /\ Calls("nativeError") = {}
     /\ Calls("nativeWarn") = {}

C9_Witness ==
  /\ call.op = "console.warn"
  /\ isLogBoxInstalled
  /\ call.args = <<Str("plain failure")>>
  /\ ContentIgnored
  /\ NoLogAdded

\* C10: ignoreAllLogs() and ignoreAllLogs(null) set the disabled flag to
\* true, ignoreAllLogs(v) sets it to the boolean v, installed or not, and the
\* installation state stays as it was.
C10_IgnoreAllLogs ==
  [][call'.op = "ignoreAllLogs" =>
       /\ disabled' = (IF call'.args[1].type = "boolean"
                       THEN call'.args[1].val = "true" ELSE TRUE)
       /\ trace' = <<Ev("LogBoxData.setDisabled", <<Bool(disabled')>>)>>
       /\ UNCHANGED installation]_vars

\* ignoreAllLogs() without an argument, before any install()
C10_Witness ==
  /\ call.op = "ignoreAllLogs"
  /\ call.args = <<Undefined>>
  /\ ~isLogBoxInstalled
  /\ disabled

\* the last operation was a warning handled by registerWarning while
\* LogBox was installed
WarningHandledInstalled ==
  isLogBoxInstalled /\ call.op \in {"console.warn", "RCTLog.warn"}

\* C11: a warning call whose first argument is a self-reporting message is
\* passed unchanged to the original warn channel, nothing else is invoked
\* and no LogRecord is added.
C11_SelfReportingWarningToWarn ==
  (WarningHandledInstalled /\ FirstArgSelfReporting)
  => /\ NoLogAdded
     /\ Cardinality(Calls("originalConsoleWarn")) = 1
     /\ \A i \in Calls("originalConsoleWarn") : trace[i].args = call.args
     /\ Calls("originalConsoleError") = {}
     /\ Calls("nativeError") = {}

\* the parser that threw in the last operation was called at position j
ThrewAt(j) ==
  /\ call.orc.throws \in {"parseLogBoxLog", "parseInterpolation"}
  /\ j \in Calls(call.orc.throws)
  /\ \A k \in Calls(call.orc.throws) : j <= k

\* C12: a diagnostic call for which parsing throws still reaches the
\* original console channel: on the warning and on the error channel the
\* pass-through comes before the parse step that throws, and the failure is
\* then reported through reportLogBoxError.
C12_PassThroughBeforeParse ==
  /\ (WarningHandledInstalled =>
        \A j \in DOMAIN trace :
          ThrewAt(j) =>
            /\ \E i \in Calls("originalConsoleWarn") : i < j
            /\ \E k \in Calls("LogBoxData.reportLogBoxError") : j < k)
  /\ (isLogBoxInstalled /\ call.op = "console.error" =>
        \A j \in DOMAIN trace :
          ThrewAt(j) =>
            /\ \E i \in Calls("originalConsoleError") : i < j
            /\ \E k \in Calls("LogBoxData.reportLogBoxError") : j < k)

\* the external function that throws in the last operation was called
ThrowerCalled ==
  \/ call.orc.throws = "checkWarningFilter" /\ Calls("LogBoxData.checkWarningFilter") # {}
  \/ call.orc.throws = "parseLogBoxLog" /\ Calls("parseLogBoxLog") # {}
  \/ call.orc.throws = "parseInterpolation" /\ Calls("parseInterpolation") # {}

\* C13: an exception raised while filtering, parsing or interpolating a
\* diagnostic call is caught in the classifier: it is reported exactly once
\* to reportLogBoxError, it does not reach the caller of console.warn /
\* console.error, and the call adds no LogRecord.
C13_ExceptionsReported ==
  ThrowerCalled
  => /\ Cardinality(Calls("LogBoxData.reportLogBoxError")) = 1
     /\ Calls("throw") = {}
     /\ NoLogAdded

\* the filter table threw on a wrapped warning and the failure was reported
C13_Witness ==
  /\ call.op = "console.error"
  /\ isLogBoxInstalled
  /\ call.orc.throws = "checkWarningFilter"
  /\ ThrowerCalled
  /\ Cardinality(Calls("LogBoxData.reportLogBoxError")) = 1

\* C14: after uninstall() the accessor that install() defined for
\* console.disableYellowBox is gone: while LogBox is uninstalled the legacy
\* flag is not an accessor that proxies to isDisabled / setDisabled.
C14_AccessorRemoved ==
  ~isLogBoxInstalled => consoleProps.disableYellowBox # "accessor"

\* the last operation was a wrapped warning handled by registerError while
\* LogBox was installed
WrappedWarningHandledInstalled ==
  /\ isLogBoxInstalled
  /\ call.op = "console.error"
  /\ FirstArgStartsWith(WARNING_PREFIX)
  /\ ~FirstArgSelfReporting

C16_SuppressedCompletely ==
  (WrappedWarningHandledInstalled /\ call.orc.suppressCompletely)
  => /\ NoLogAdded
     /\ Calls("originalConsoleError") = {}
     /\ Calls("nativeError") = {}
     /\ Calls("parseLogBoxLog") = {}
     /\ Calls("parseInterpolation") = {}
     /\ Calls("LogBoxData.reportLogBoxError") = {}

\* the filter was asked about the stripped format and nothing followed
C16_Witness ==
  /\ WrappedWarningHandledInstalled
  /\ call.orc.suppressCompletely
  /\ call.args = <<Str("Warning: X overflow"), Str(COMPONENT_STACK)>>
  /\ trace = <<Ev("LogBoxData.checkWarningFilter", <<Str("X overflow")>>)>>

\* a captured original holds no layer of LogBox: calling it cannot come back
\* to the wrappers or the classifiers
FreeOfLogBox(fn) == \A i \in DOMAIN fn : fn[i] \in {"nativeError", "nativeWarn", "other"}

\* C17: classification never triggers classification.  In any operation,
\* the deprecation notices of install() and of the legacy-flag setter
\* included, the classifiers call only the captured originals, which hold
\* no LogBox layer, so no call re-enters the wrapped console and each
\* original channel, the parser and the store are reached at most once; a
\* self-reporting message on the error channel goes unchanged to the
\* original error channel and adds no LogRecord.
C17_NoReentry ==
  /\ FreeOfLogBox(originalConsoleError)
  /\ FreeOfLogBox(originalConsoleWarn)
  /\ Calls("reentry") = {}
  /\ Cardinality(Calls("originalConsoleError") \cup Calls("originalConsoleWarn")) <= 1
  /\ Cardinality(Calls("parseLogBoxLog")) <= 1
  /\ Cardinality(Calls("LogBoxData.addLog")) <= 1
  /\ (isLogBoxInstalled /\ call.op = "console.error" /\ FirstArgSelfReporting
      => /\ Cardinality(Calls("originalConsoleError")) = 1
         /\ \A i \in Calls("originalConsoleError") : trace[i].args = call.args
         /\ Calls("parseLogBoxLog") = {}
         /\ NoLogAdded)

\* install() migrated the legacy flag: its deprecation notice was classified
\* once, went to the original warn channel and install() went on
C17_Witness ==
  /\ call.op = "install"
  /\ \E i \in Calls("originalConsoleWarn") : trace[i].args = <<Str(DEPRECATION_NOTICE)>>
  /\ Cardinality(Calls("LogBoxData.addLog")) = 1
  /\ Calls("RCTLog.setWarningHandler") # {}

\* C18: while LogBox is uninstalled, also after install() and uninstall(),
\* no diagnostic event adds a LogRecord, whether it comes through
\* console.warn, console.error or the warning handler registered with RCTLog.
C18_NothingRecordedWhileUninstalled ==
  (~isLogBoxInstalled /\ call.op \in {"console.warn", "console.error", "RCTLog.warn"})
  => NoLogAdded

\* the deprecation notice was emitted in the last operation
NoticeEmitted ==
  \E i \in DOMAIN trace : trace[i].args = <<Str(DEPRECATION_NOTICE)>>

\* C19: install() emits the disableYellowBox deprecation notice, and the
\* LogRecord it produces, only when the application itself had set the
\* legacy flag to true; a re-install after uninstall() with disabled set
\* by ignoreAllLogs(true) or by the testing rule emits none.
C19_NoticeOnlyForLegacyFlag ==
  (call.op = "install" /\ NoticeEmitted) => legacyFlag = "true"
====
